---- MODULE Spec2Model ----
(***************************************************************************)
(* A model of the BLE host stack's packet pool (host/src/packet_pool.rs),   *)
(* connection manager (host/src/connection_manager.rs), host event loop    *)
(* (host/src/adapter.rs) and GATT server task (host/src/gatt.rs).          *)
(*                                                                         *)
(* The pool is a PacketPool<M, MTU, N, CLIENTS> built with one Qos policy. *)
(* Its state is the free flag of each of the N buffers and the usage       *)
(* counter of each of the CLIENTS clients; the Packet handles that are     *)
(* alive (allocated and not yet dropped) are kept as a bag of              *)
(* (client, idx) pairs.  usize arithmetic is modelled with its two build   *)
(* outcomes: with overflow checks (debug profile) an overflowing           *)
(* subtraction panics, without them (release profile) it wraps.            *)
(***************************************************************************)
EXTENDS Integers, Sequences, FiniteSets, Bags, TLC

\* ------------------------------------------------------------------ sizes

\* PacketPool<NoopRawMutex, 1, 8, 4>: the pool of the repository's tests.
N == 8
CLIENTS == 4

\* Qos::Guaranteed(k) is explored for k in 1..MaxGuaranteed.
MaxGuaranteed == 2

\* Width of usize in the model (wrapping arithmetic is taken modulo 2^USIZE_BITS).
USIZE_BITS == 16

\* A live-handle cap that keeps the release-profile runs finite.
MaxLive == 12

\* ConnectionManager<M, CONNS>: number of connection slots.
CONNS == 2

\* ConnHandle values 1..MaxHandle reported by the controller.
MaxHandle == 2

\* ChannelManager<.., CHANNELS, ..>: number of L2CAP channel slots.
CHANNELS == 2

\* Adapter<.., L2CAP_TXQ, L2CAP_RXQ>: capacities of the outbound and the
\* inbound ATT queue.
L2CAP_TXQ == 2
L2CAP_RXQ == 1

\* att_mtu: 23 in the ConnectionInfo built for LeConnectionComplete
ATT_MTU_DEFAULT == 23

VARIABLES
    qos,              \* PacketPool.qos, fixed at construction
    overflow_checks,  \* build profile: TRUE = overflow panics, FALSE = wraps
    packets,          \* State.packets: idx -> free flag
    usage,            \* State.usage: client -> number of buffers accounted to it
    live,             \* bag of live Packet handles [client, idx]
    panicked,         \* the program has panicked (and stopped)
    last,             \* the last pool operation and its outcome
    connections,      \* ConnectionManager State.connections: slot -> ConnectionState
    waker,            \* State.waker: TRUE while a waker is registered
    acceptor,         \* the task awaiting accept(): "idle", "runnable" (to be
                      \* polled for the first time), "pending", or "woken" (to
                      \* be polled again after its waker was woken)
    conn_last,        \* the last connection manager operation and its outcome
    att_mtu,          \* ConnectionInfo.att_mtu of each slot
    run_pc,           \* Adapter::run: where the event loop is
    run_last,         \* the last step of the event loop and the HCI command it issued
    driver_tx,        \* the last outbound Pdu the driver accepted from the loop
    bufs,             \* PacketBuf::buf of every buffer of the pool: what its bytes hold
    att_inbound,      \* Adapter.att_inbound: queue of (ConnHandle, Pdu)
    att_pending,      \* the (ConnHandle, Pdu) the loop is suspended sending
    outbound,         \* Adapter.outbound: queue of (ConnHandle, Pdu)
    tx_cur,           \* the (ConnHandle, Pdu) the loop is writing to the driver
    control,          \* Adapter.control: queue of ControlCommand (capacity 1)
    scanner,          \* Adapter.scanner: number of queued ScanReports (capacity 1)
    channels,         \* ChannelManager: slot -> channel state
    signals,          \* ChannelManager: outbound signal queue (capacity 1)
    gatt_pc,          \* GattServer::next: where the GATT task is
    gatt_cur,         \* the request and response the GATT task holds
    gatt_ret,         \* what the last call of GattServer::next returned
    notify_pc,        \* GattServer::notify: "idle", or "sending" while it awaits tx.send
    notify_cur,       \* the (ConnHandle, Pdu) notify is suspended sending
    notify_ret,       \* what the last call of notify returned ("pending": not yet)
    table,            \* AttributeTable: the value stored for each characteristic
    next_seq,         \* number of Pdus enqueued on outbound so far (mod SeqMod)
    wr_seq            \* number of Pdus written to the driver so far (mod SeqMod)

poolVars == <<qos, overflow_checks, packets, usage, live, panicked, last>>

connVars == <<connections, waker, acceptor, conn_last>>

hostVars == <<run_pc, run_last, driver_tx, bufs, att_inbound, att_pending, outbound, tx_cur, control,
              scanner, channels, signals, gatt_pc, gatt_cur, gatt_ret, notify_pc, notify_cur,
          notify_ret, table, next_seq, wr_seq>>

vars == <<qos, overflow_checks, packets, usage, live, panicked, last,
          connections, waker, acceptor, conn_last, att_mtu,
          run_pc, run_last, driver_tx, bufs, att_inbound, att_pending, outbound, tx_cur, control,
          scanner, channels, signals, gatt_pc, gatt_cur, gatt_ret, notify_pc, notify_cur,
          notify_ret, table, next_seq, wr_seq>>

\* ------------------------------------------------------------------ pool

AllocIds == 0 .. (CLIENTS - 1)
BufIdx == 0 .. (N - 1)

QosFair == [kind |-> "Fair", n |-> 0]
QosNone == [kind |-> "None", n |-> 0]
QosGuaranteed(k) == [kind |-> "Guaranteed", n |-> k]

QosPolicies == {QosFair, QosNone} \cup {QosGuaranteed(k) : k \in 1 .. MaxGuaranteed}

USIZE_MOD == 2 ^ USIZE_BITS

RECURSIVE SumOver(_, _)
SumOver(f, S) ==
    IF S = {} THEN 0
    ELSE LET x == CHOOSE y \in S : TRUE IN f[x] + SumOver(f, S \ {x})

\* usage.iter().sum()
UsageSum(u) == SumOver(u, AllocIds)

\* N.checked_sub(x).unwrap_or(0)
checked_sub_or_0(a, b) == IF a >= b THEN a - b ELSE 0

\* a - b on usize without overflow checks
wrapping_sub(a, b) == (a - b) % USIZE_MOD

\* a + b on usize without overflow checks
wrapping_add(a, b) == (a + b) % USIZE_MOD

\* Qos::None computed from the first client's counter instead of the sum
AvailableNoneFirstOnly(u) == checked_sub_or_0(N, u[0])

\* Qos::None => N.checked_sub(usage.iter().sum()).unwrap_or(0)
AvailableNone(u) == checked_sub_or_0(N, UsageSum(u))

\* Qos::Fair without the division by CLIENTS
AvailableFairUndivided(u, client) == checked_sub_or_0(N, u[client])

\* Qos::Fair => (N / CLIENTS).checked_sub(usage[client.0]).unwrap_or(0)
AvailableFair(u, client) == checked_sub_or_0(N \div CLIENTS, u[client])

\* let reserved = n * usage.iter().filter(|c| **c == 0).count();
ReservedForIdle(u, n) == n * Cardinality({c \in AllocIds : u[c] = 0})

\* the asking client's own reservation is not given back to it
ShortfallIgnored(u, n, client) == 0

\* if usage[client.0] < n { n - usage[client.0] } else { 0 }
Shortfall(u, n, client) == IF u[client] < n THEN n - u[client] ELSE 0

\* `reserved - shortfall` overflows usize
GuaranteedUnderflows(u, n, client) == ReservedForIdle(u, n) < Shortfall(u, n, client)

\* Qos::Guaranteed(n), the value computed when nothing panics
AvailableGuaranteed(u, n, client) ==
    LET reserved == wrapping_sub(ReservedForIdle(u, n), Shortfall(u, n, client))
        total == wrapping_add(reserved, UsageSum(u))
    IN checked_sub_or_0(N, total)

\* State::available panics (attempt to subtract with overflow)
AvailablePanics(u, q, checks, client) ==
    /\ checks
    /\ q.kind = "Guaranteed"
    /\ GuaranteedUnderflows(u, q.n, client)

\* State::available
available(u, q, client) ==
    CASE q.kind = "None" -> AvailableNone(u)
      [] q.kind = "Fair" -> AvailableFair(u, client)
      [] q.kind = "Guaranteed" -> AvailableGuaranteed(u, q.n, client)

\* State::alloc: the first buffer whose free flag is set, if any
FreeBufs(p) == {i \in BufIdx : p[i]}
FirstFree(p) == CHOOSE i \in FreeBufs(p) : \A j \in FreeBufs(p) : i <= j

\* State::alloc: the flag written to the chosen buffer (`packet.free = true`)
AllocMark == TRUE

\* State::alloc on a pool with a free buffer
StateAllocPackets(p) == [p EXCEPT ![FirstFree(p)] = AllocMark]
StateAllocUsage(u, id) == [u EXCEPT ![id] = u[id] + 1]

\* State::free without the decrement of the client's counter
StateFreeUsageKept(u, id) == u

\* State::free
StateFreePackets(p, idx) == [p EXCEPT ![idx] = TRUE]
StateFreeUsage(u, id) == [u EXCEPT ![id] = u[id] - 1]

\* The outcome of PacketPool::alloc(id) in the current state
AllocOutcome(id) ==
    IF AvailablePanics(usage, qos, overflow_checks, id) THEN "panic"
    ELSE IF available(usage, qos, id) = 0 THEN "None"
    ELSE IF FreeBufs(packets) = {} THEN "None"
    ELSE "Some"

Handle(id, idx) == [client |-> id, idx |-> idx]

NoOp == [op |-> "new", id |-> 0, idx |-> 0, result |-> "-"]

PoolInit ==
    /\ qos \in QosPolicies
    /\ overflow_checks \in BOOLEAN
    /\ packets = [i \in BufIdx |-> TRUE]
    /\ usage = [c \in AllocIds |-> 0]
    /\ live = EmptyBag
    /\ panicked = FALSE
    /\ last = NoOp

\* PacketPool::alloc(id) returning Some(Packet)
AllocSome(id) ==
    /\ ~panicked
    /\ BagCardinality(live) < MaxLive
    /\ AllocOutcome(id) = "Some"
    /\ packets' = StateAllocPackets(packets)
    /\ usage' = StateAllocUsage(usage, id)
    /\ live' = live (+) SetToBag({Handle(id, FirstFree(packets))})
    /\ last' = [op |-> "alloc", id |-> id, idx |-> FirstFree(packets), result |-> "Some"]
    /\ UNCHANGED <<qos, overflow_checks, panicked>>
    /\ UNCHANGED <<connVars, att_mtu, hostVars>>

\* PacketPool::alloc(id) returning None
AllocNone(id) ==
    /\ ~panicked
    /\ AllocOutcome(id) = "None"
    /\ last' = [op |-> "alloc", id |-> id, idx |-> 0, result |-> "None"]
    /\ UNCHANGED <<qos, overflow_checks, packets, usage, live, panicked>>
    /\ UNCHANGED <<connVars, att_mtu, hostVars>>

\* PacketPool::alloc(id) panicking inside State::available
AllocPanic(id) ==
    /\ ~panicked
    /\ AllocOutcome(id) = "panic"
    /\ panicked' = TRUE
    /\ last' = [op |-> "alloc", id |-> id, idx |-> 0, result |-> "panic"]
    /\ UNCHANGED <<qos, overflow_checks, packets, usage, live>>
    /\ UNCHANGED <<connVars, att_mtu, hostVars>>

\* impl Drop for Packet: p_ref.take() and pool.free(client, r)
DropPacket(h) ==
    /\ ~panicked
    /\ BagIn(h, live)
    /\ packets' = StateFreePackets(packets, h.idx)
    /\ usage' = StateFreeUsage(usage, h.client)
    /\ live' = live (-) SetToBag({h})
    /\ last' = [op |-> "drop", id |-> h.client, idx |-> h.idx, result |-> "-"]
    /\ UNCHANGED <<qos, overflow_checks, panicked>>
    /\ UNCHANGED <<connVars, att_mtu, hostVars>>

PoolNext ==
    \/ \E id \in AllocIds : AllocSome(id)
    \/ \E id \in AllocIds : AllocNone(id)
    \/ \E id \in AllocIds : AllocPanic(id)
    \/ \E h \in BagToSet(live) : DropPacket(h)

\* ------------------------------------------------------ connection manager

Slots == 0 .. (CONNS - 1)
Handles == 1 .. MaxHandle

\* ConnectionInfo values (the link parameters reported with a connection)
Infos == {"info_a", "info_b"}

\* enum ConnectionState
Disconnected == [state |-> "Disconnected", handle |-> 0, info |-> "none"]
Connecting(h, info) == [state |-> "Connecting", handle |-> h, info |-> info]
Connected(h, info) == [state |-> "Connected", handle |-> h, info |-> info]

SlotsIn(conns, st) == {i \in Slots : conns[i].state = st}

\* the first slot the iteration over `connections` finds in state st
FirstSlot(conns, st) == CHOOSE i \in SlotsIn(conns, st) : \A j \in SlotsIn(conns, st) : i <= j

\* disconnect without the Connecting arm of the match
DisconnectSlotsConnectedOnly(conns, h) ==
    [i \in Slots |->
        IF conns[i].state = "Connected" /\ conns[i].handle = h
        THEN Disconnected
        ELSE conns[i]]

\* ConnectionManager::disconnect: every slot matching h becomes Disconnected
DisconnectSlots(conns, h) ==
    [i \in Slots |->
        IF conns[i].state \in {"Connecting", "Connected"} /\ conns[i].handle = h
        THEN Disconnected
        ELSE conns[i]]

\* connect taking the last Disconnected slot instead of the first
ConnectSlotsLast(conns, h, info) ==
    LET i == CHOOSE k \in SlotsIn(conns, "Disconnected") :
                 \A j \in SlotsIn(conns, "Disconnected") : k >= j
    IN [conns EXCEPT ![i] = Connecting(h, info)]

\* connect overwriting slot 0 whatever its state
ConnectSlotsOverwrite(conns, h, info) == [conns EXCEPT ![0] = Connecting(h, info)]

\* ConnectionManager::connect: the first Disconnected slot becomes Connecting
ConnectSlots(conns, h, info) ==
    [conns EXCEPT ![FirstSlot(conns, "Disconnected")] = Connecting(h, info)]

\* poll_accept picking the last Connecting slot instead of the first
AcceptSlotLast(conns) ==
    CHOOSE i \in SlotsIn(conns, "Connecting") : \A j \in SlotsIn(conns, "Connecting") : i >= j

\* ConnectionManager::poll_accept: the slot it picks
AcceptSlot(conns) == FirstSlot(conns, "Connecting")

\* poll_accept promoting every Connecting slot (no return after the first)
AcceptSlotsAll(conns) ==
    [i \in Slots |->
        IF conns[i].state = "Connecting"
        THEN Connected(conns[i].handle, conns[i].info)
        ELSE conns[i]]

\* ConnectionManager::poll_accept: the first Connecting slot becomes Connected
AcceptSlots(conns) ==
    LET i == AcceptSlot(conns)
    IN [conns EXCEPT ![i] = Connected(conns[i].handle, conns[i].info)]

ConnNoOp == [op |-> "new", handle |-> 0, result |-> "-"]

\* ConnectionInfo.att_mtu per slot: a slot that is Disconnected holds no
\* ConnectionInfo, a slot that was Disconnected and is not any more holds the
\* ConnectionInfo built with att_mtu: 23
AttMtuAfter(mtus, conns) ==
    [i \in Slots |-> IF conns[i].state = "Disconnected" THEN ATT_MTU_DEFAULT ELSE mtus[i]]

ConnInit ==
    /\ att_mtu = [i \in Slots |-> ATT_MTU_DEFAULT]
    /\ connections = [i \in Slots |-> Disconnected]
    /\ waker = FALSE
    /\ acceptor = "idle"
    /\ conn_last = ConnNoOp

\* connect that leaves the registered waker alone
WokenAcceptorNever == acceptor


\* WakerRegistration::wake: the registered task, if any, becomes runnable
WokenAcceptor == IF waker /\ acceptor = "pending" THEN "woken" ELSE acceptor

\* ConnectionManager::connect: what it does to the manager
ConnectIn(h, info) ==
    IF SlotsIn(connections, "Disconnected") # {}
    THEN /\ connections' = ConnectSlots(connections, h, info)
         /\ acceptor' = WokenAcceptor
         /\ waker' = FALSE
         /\ conn_last' = [op |-> "connect", handle |-> h, result |-> "Ok"]
         /\ att_mtu' = AttMtuAfter(att_mtu, ConnectSlots(connections, h, info))
    ELSE /\ conn_last' = [op |-> "connect", handle |-> h, result |-> "Err"]
         /\ UNCHANGED <<connections, waker, acceptor, att_mtu>>

\* ConnectionManager::disconnect: what it does to the manager
DisconnectIn(h) ==
    /\ connections' = DisconnectSlots(connections, h)
    /\ conn_last' = [op |-> "disconnect", handle |-> h, result |-> "Ok"]
    /\ att_mtu' = AttMtuAfter(att_mtu, DisconnectSlots(connections, h))
    /\ UNCHANGED <<waker, acceptor>>

\* ConnectionManager::connect returning Ok(())
ConnectOk(h, info) ==
    /\ SlotsIn(connections, "Disconnected") # {}
    /\ ConnectIn(h, info)
    /\ UNCHANGED <<poolVars, hostVars>>

\* ConnectionManager::connect returning Err(())
ConnectErr(h, info) ==
    /\ SlotsIn(connections, "Disconnected") = {}
    /\ ConnectIn(h, info)
    /\ UNCHANGED <<poolVars, hostVars>>

\* ConnectionManager::disconnect
disconnect(h) ==
    /\ DisconnectIn(h)
    /\ UNCHANGED <<poolVars, hostVars>>

\* ConnectionManager::accept is called: the future is created and scheduled
AcceptStart ==
    /\ acceptor = "idle"
    /\ acceptor' = "runnable"
    /\ conn_last' = [op |-> "accept", handle |-> 0, result |-> "-"]
    /\ UNCHANGED <<connections, waker>>
    /\ UNCHANGED <<poolVars, att_mtu, hostVars>>

\* ConnectionManager::poll_accept returning Poll::Ready(handle)
PollAcceptReady ==
    /\ acceptor \in {"runnable", "woken"}
    /\ SlotsIn(connections, "Connecting") # {}
    /\ connections' = AcceptSlots(connections)
    /\ acceptor' = "idle"
    /\ conn_last' = [op |-> "poll_accept",
                     handle |-> connections[AcceptSlot(connections)].handle,
                     result |-> "Ready"]
    /\ UNCHANGED waker
    /\ UNCHANGED <<poolVars, att_mtu, hostVars>>

\* ConnectionManager::poll_accept returning Poll::Pending
PollAcceptPending ==
    /\ acceptor \in {"runnable", "woken"}
    /\ SlotsIn(connections, "Connecting") = {}
    /\ waker' = TRUE
    /\ acceptor' = "pending"
    /\ conn_last' = [op |-> "poll_accept", handle |-> 0, result |-> "Pending"]
    /\ UNCHANGED connections
    /\ UNCHANGED <<poolVars, att_mtu, hostVars>>

\* the accept() future is dropped before it completed
AcceptCancel ==
    /\ acceptor \in {"runnable", "pending", "woken"}
    /\ acceptor' = "idle"
    /\ conn_last' = [op |-> "cancel", handle |-> 0, result |-> "-"]
    /\ UNCHANGED <<connections, waker>>
    /\ UNCHANGED <<poolVars, att_mtu, hostVars>>

ConnNext ==
    \/ \E h \in Handles, info \in Infos : ConnectOk(h, info)
    \/ \E h \in Handles, info \in Infos : ConnectErr(h, info)
    \/ \E h \in Handles : disconnect(h)
    \/ AcceptStart
    \/ PollAcceptReady
    \/ PollAcceptPending
    \/ AcceptCancel

\* ------------------------------------------- pool operations on a record

\* The pool's mutable state as one value, so that a handler that allocates
\* and frees in one step can be written as a composition.
PoolState ==
    [packets |-> packets, usage |-> usage, live |-> live, panicked |-> panicked, last |-> last]

\* PacketPool::alloc(id) on pool state ps: its outcome
AllocOutcomeIn(ps, id) ==
    IF AvailablePanics(ps.usage, qos, overflow_checks, id) THEN "panic"
    ELSE IF available(ps.usage, qos, id) = 0 THEN "None"
    ELSE IF FreeBufs(ps.packets) = {} THEN "None"
    ELSE "Some"

\* PacketPool::alloc(id) on pool state ps: the state it leaves
PoolAlloc(ps, id) ==
    LET o == AllocOutcomeIn(ps, id)
    IN IF o = "Some"
       THEN [packets |-> StateAllocPackets(ps.packets),
             usage |-> StateAllocUsage(ps.usage, id),
             live |-> ps.live (+) SetToBag({Handle(id, FirstFree(ps.packets))}),
             panicked |-> ps.panicked,
             last |-> [op |-> "alloc", id |-> id, idx |-> FirstFree(ps.packets),
                       result |-> "Some"]]
       ELSE IF o = "None"
       THEN [ps EXCEPT !.last = [op |-> "alloc", id |-> id, idx |-> 0, result |-> "None"]]
       ELSE [ps EXCEPT !.panicked = TRUE,
                       !.last = [op |-> "alloc", id |-> id, idx |-> 0, result |-> "panic"]]

\* the Packet a successful alloc on ps returns
AllocatedPacket(ps, id) == Handle(id, FirstFree(ps.packets))

\* impl Drop for Packet on pool state ps
PoolFree(ps, h) ==
    [packets |-> StateFreePackets(ps.packets, h.idx),
     usage |-> StateFreeUsage(ps.usage, h.client),
     live |-> ps.live (-) SetToBag({h}),
     panicked |-> ps.panicked,
     last |-> [op |-> "drop", id |-> h.client, idx |-> h.idx, result |-> "-"]]

\* the pool is left in state ps
SetPool(ps) ==
    /\ packets' = ps.packets
    /\ usage' = ps.usage
    /\ live' = ps.live
    /\ panicked' = ps.panicked
    /\ last' = ps.last
    /\ UNCHANGED <<qos, overflow_checks>>

\* ------------------------------------------------------------- host state

\* pub(crate) const ATT_ID: AllocId = AllocId(0)
ATT_ID == 0

\* pub(crate) const L2CAP_SIGNAL_ID: AllocId = AllocId(1)
L2CAP_SIGNAL_ID == 1

\* AllocId::dynamic(idx)
dynamic(idx) == 2 + idx

\* HostResources: pool: PacketPool<M, L2CAP_MTU, PACKETS, CHANNELS>, so the
\* usage array of the host's pool has CHANNELS entries
HostClients == CHANNELS

\* ConnectionManager::exchange_att_mtu: the largest ATT MTU the host accepts
LOCAL_MAX_MTU == 247

\* HostResources<.., L2CAP_MTU>: the size of a buffer of the host's pool
L2CAP_MTU == 128

\* the lengths AttributeServer::process reports for a response
Written == {3, 120}

\* CharacteristicHandle: the attribute handle and whether the characteristic
\* has a CCCD (cccd_handle is Some)
CharHandles == {1, 2}
Chars == {[handle |-> 1, cccd |-> TRUE], [handle |-> 2, cccd |-> FALSE]}

\* the lengths of the values an application notifies
NotifyValues == {10, 110, 200}

\* the MTU values a peer's ExchangeMtu request carries
PeerMtus == {100, 300}

\* sequence numbers of outbound Pdus are kept modulo SeqMod
SeqMod == L2CAP_TXQ + 2

ChanSlots == 0 .. (CHANNELS - 1)

\* ChannelManager: a channel slot
\* the credits a channel is seeded with, and the mark below which they are
\* restored
INITIAL_CREDITS == 4
LOW_WATER == 2

\* a slot holds the channel's state, its connection, its local credits and
\* the number of Pdus in its receive queue
ChanDisconnected == [state |-> "Disconnected", conn |-> 0, credits |-> 0, rx |-> 0]
ChanConnected(h) ==
    [state |-> "Connected", conn |-> h, credits |-> INITIAL_CREDITS, rx |-> 0]

\* The bytes a buffer holds, as far as the host looks at them: what they
\* decode to (tag, mtu) and, for a frame the host has built, the length and
\* channel id written into its L2CAP header and the number of body bytes
\* behind the header (data.len())
Frame(tag, mtu, length, cid, data_len) ==
    [tag |-> tag, mtu |-> mtu, length |-> length, cid |-> cid, data_len |-> data_len]

\* an inbound payload: handle_acl copies the payload only
Body(tag, mtu) == Frame(tag, mtu, 0, 0, 0)
NoBody == Body("none", 0)

\* Att::decode of an inbound ATT payload: an error, ExchangeMtu{mtu}, a write
\* request, another request; "Oversize" is a payload longer than the pool's
\* buffers
AttBodies ==
    {Body("Bad", 0), Body("Other", 0), Body("Write", 0), Body("Oversize", 0)}
        \cup {Body("ExchangeMtu", m) : m \in PeerMtus}

\* L2capLeSignal read from a signalling payload: a codec error, an LE Credit
\* Based Connection Request, a Disconnection Request
SignalBodies == {Body("SigBad", 0), Body("ConnReq", 0), Body("DiscReq", 0)}

\* (ConnHandle, Pdu): the connection, the Packet whose buffer holds the bytes,
\* the packet-boundary flag and (outbound) the position in the order of
\* enqueueing
Pdu(conn, pkt, pb, seq, len) ==
    [conn |-> conn, pkt |-> pkt, pb |-> pb, seq |-> seq, len |-> len]
NoPdu == Pdu(0, Handle(0, 0), "none", 0, 0)

\* packet.payload.len() of an inbound ATT payload: opcode and a 16-bit
\* parameter, or one byte more than a buffer of the pool holds
PayloadLen(body) == IF body.tag = "Oversize" THEN L2CAP_MTU + 1 ELSE 3

\* HCI commands the loop issues
NoCmd == [cmd |-> "none", handle |-> 0]
HciDisconnect(h) == [cmd |-> "Disconnect", handle |-> h]
HciLeCreateConn == [cmd |-> "LeCreateConn", handle |-> 0]

\* enum ControlCommand
ControlCommands == {HciLeCreateConn} \cup {HciDisconnect(h) : h \in Handles}

HostInit ==
    /\ run_pc = "select"
    /\ run_last = [step |-> "init", cmd |-> NoCmd]
    /\ driver_tx = [conn |-> 0, pb |-> "none", seq |-> 0]
    /\ bufs = [i \in BufIdx |-> NoBody]
    /\ att_inbound = <<>>
    /\ att_pending = NoPdu
    /\ outbound = <<>>
    /\ tx_cur = NoPdu
    /\ control = <<>>
    /\ scanner = 0
    /\ channels = [c \in ChanSlots |-> ChanDisconnected]
    /\ signals = <<>>
    /\ gatt_pc = "receive"
    /\ gatt_cur = <<NoPdu, NoPdu>>
    /\ gatt_ret = "none"
    /\ notify_pc = "idle"
    /\ notify_cur = NoPdu
    /\ notify_ret = "none"
    /\ table = [c \in CharHandles |-> 0]
    /\ next_seq = 0
    /\ wr_seq = 0

\* ------------------------------------------------- Adapter::run, driver read

queueVars == <<bufs, att_inbound, att_pending, outbound, tx_cur, next_seq, wr_seq, driver_tx>>
gattVars == <<gatt_pc, gatt_cur, gatt_ret>>
notifyVars == <<notify_pc, notify_cur, notify_ret, table>>

\* the loop is at its select4 and the program has not panicked
AtSelect == run_pc = "select" /\ ~panicked

\* the loop finished an iteration with step s, having issued command c
Continue(s, c) ==
    /\ run_pc' = "select"
    /\ run_last' = [step |-> s, cmd |-> c]

\* `?` left Adapter::run with an Err
ReturnErr(s) ==
    /\ run_pc' = "returned"
    /\ run_last' = [step |-> s, cmd |-> NoCmd]

\* panic!, unwrap() of an Err, unimplemented!()
Panic(s, c) ==
    /\ run_pc' = "panicked"
    /\ run_last' = [step |-> s, cmd |-> c]
    /\ panicked' = TRUE
    /\ UNCHANGED <<qos, overflow_checks, packets, usage, live, last>>

\* the event loop stops at a panic raised while the pool is in state ps
PanicIn(s, ps) ==
    /\ run_pc' = "panicked"
    /\ run_last' = [step |-> s, cmd |-> NoCmd]
    /\ SetPool([ps EXCEPT !.panicked = TRUE])

\* try_read returned Err: "Error from controller" is logged
RunReadErr ==
    /\ AtSelect
    /\ Continue("ReadErr", NoCmd)
    /\ UNCHANGED <<poolVars, connVars, att_mtu, queueVars, control, scanner, channels,
                   signals, gattVars, notifyVars>>

\* a packet that is neither ACL data nor an event: "Ignoring packet"
RunReadOtherKind ==
    /\ AtSelect
    /\ Continue("ReadOtherKind", NoCmd)
    /\ UNCHANGED <<poolVars, connVars, att_mtu, queueVars, control, scanner, channels,
                   signals, gattVars, notifyVars>>

\* AclPacket::from_hci_bytes(&rx)? fails
RunReadAclMalformed ==
    /\ AtSelect
    /\ ReturnErr("ReadAclMalformed")
    /\ UNCHANGED <<poolVars, connVars, att_mtu, queueVars, control, scanner, channels,
                   signals, gattVars, notifyVars>>

\* Event::from_hci_bytes(&rx)? fails
RunReadEventMalformed ==
    /\ AtSelect
    /\ ReturnErr("ReadEventMalformed")
    /\ UNCHANGED <<poolVars, connVars, att_mtu, queueVars, control, scanner, channels,
                   signals, gattVars, notifyVars>>

\* handle_acl: L2capPacket::decode(acl)? fails; run logs "Error processing ACL"
RunReadL2capMalformed ==
    /\ AtSelect
    /\ Continue("ReadL2capMalformed", NoCmd)
    /\ UNCHANGED <<poolVars, connVars, att_mtu, queueVars, control, scanner, channels,
                   signals, gattVars, notifyVars>>

\* handle_acl on the signalling channel: r.read()? fails; run logs the error
RunReadSignalMalformed ==
    /\ AtSelect
    /\ Continue("ReadSignalMalformed", NoCmd)
    /\ UNCHANGED <<poolVars, connVars, att_mtu, queueVars, control, scanner, channels,
                   signals, gattVars, notifyVars>>

\* handle_acl on a channel id that is neither fixed nor dynamic: unimplemented!()
RunReadOtherCid ==
    /\ AtSelect
    /\ Panic("ReadOtherCid", NoCmd)
    /\ UNCHANGED <<connVars, att_mtu, queueVars, control, scanner, channels,
                   signals, gattVars, notifyVars>>

\* an event the loop has no arm for, or NumberOfCompletedPackets
RunReadOtherEvent ==
    /\ AtSelect
    /\ Continue("ReadOtherEvent", NoCmd)
    /\ UNCHANGED <<poolVars, connVars, att_mtu, queueVars, control, scanner, channels,
                   signals, gattVars, notifyVars>>

\* ------------------------------------- Adapter::run, connection events

\* no command is issued when connect fails
ConnectFailCmdNone(h) == NoCmd

\* the command issued when connect fails
ConnectFailCmd(h) == HciDisconnect(h)

\* LeConnectionComplete for handle h; exec_ok: whether the controller accepts
\* the Disconnect command issued when connect fails (unwrap() of its result)
RunReadLeConnectionComplete(h, info, exec_ok) ==
    /\ AtSelect
    /\ ConnectIn(h, info)
    /\ IF SlotsIn(connections, "Disconnected") # {}
       THEN Continue("LeConnectionComplete", NoCmd) /\ UNCHANGED poolVars
       ELSE IF exec_ok
       THEN Continue("LeConnectionComplete", ConnectFailCmd(h)) /\ UNCHANGED poolVars
       ELSE Panic("LeConnectionComplete", ConnectFailCmd(h))
    /\ UNCHANGED <<queueVars, control, scanner, channels, signals, gattVars, notifyVars>>

\* DisconnectionComplete for handle h
RunReadDisconnectionComplete(h) ==
    /\ AtSelect
    /\ DisconnectIn(h)
    /\ Continue("DisconnectionComplete", NoCmd)
    /\ UNCHANGED <<poolVars, queueVars, control, scanner, channels, signals, gattVars, notifyVars>>

\* LeAdvertisingReport: scanner.send(..).await on a channel of capacity 1 that
\* nothing receives from
RunReadLeAdvertisingReport ==
    /\ AtSelect
    /\ IF scanner < 1
       THEN scanner' = scanner + 1 /\ Continue("LeAdvertisingReport", NoCmd)
       ELSE /\ scanner' = scanner
            /\ run_pc' = "scanner_send"
            /\ run_last' = [step |-> "LeAdvertisingReport", cmd |-> NoCmd]
    /\ UNCHANGED <<poolVars, connVars, att_mtu, queueVars, control, channels,
                   signals, gattVars, notifyVars>>

\* ------------------------------------------ Adapter::run, control commands

\* Connection::disconnect and the connect call of a central put a
\* ControlCommand on the control channel (capacity 1)
ControlSend(c) ==
    /\ ~panicked
    /\ Len(control) < 1
    /\ control' = Append(control, c)
    /\ UNCHANGED <<poolVars, connVars, att_mtu, run_pc, run_last, queueVars, scanner,
                   channels, signals, gattVars, notifyVars>>

\* select4 polls the outbound queue before the control channel
ControlReady == AtSelect /\ outbound = <<>> /\ control # <<>>

\* Either4::Third(ControlCommand::Disconnect(params))
RunControlDisconnect(exec_ok) ==
    /\ ControlReady
    /\ Head(control).cmd = "Disconnect"
    /\ control' = Tail(control)
    /\ DisconnectIn(Head(control).handle)
    /\ IF exec_ok
       THEN Continue("ControlDisconnect", Head(control)) /\ UNCHANGED poolVars
       ELSE Panic("ControlDisconnect", Head(control))
    /\ UNCHANGED <<queueVars, scanner, channels, signals, gattVars, notifyVars>>

\* Either4::Third(ControlCommand::Connect(params))
RunControlConnect(exec_ok) ==
    /\ ControlReady
    /\ Head(control).cmd = "LeCreateConn"
    /\ control' = Tail(control)
    /\ IF exec_ok
       THEN Continue("ControlConnect", Head(control)) /\ UNCHANGED poolVars
       ELSE Panic("ControlConnect", Head(control))
    /\ UNCHANGED <<connVars, att_mtu, queueVars, scanner, channels, signals, gattVars, notifyVars>>

\* --------------------------------------- Adapter::run, L2CAP signalling

ChansIn(chs, st) == {c \in ChanSlots : chs[c].state = st}
FirstChan(chs, st) == CHOOSE c \in ChansIn(chs, st) : \A d \in ChansIn(chs, st) : c <= d

\* ChannelManager::control for an LE Credit Based Connection Request on
\* connection h: a channel slot is allocated if one is free
ControlConnReq(chs, h) ==
    IF ChansIn(chs, "Disconnected") = {}
    THEN chs
    ELSE [chs EXCEPT ![FirstChan(chs, "Disconnected")] = ChanConnected(h)]

\* the status of the response to that request
ConnRspStatus(chs) ==
    IF ChansIn(chs, "Disconnected") = {} THEN "NoResources" ELSE "Success"

\* ChannelManager::control for a Disconnection Request on connection h that
\* names the channel in slot c: the slot is freed if it is that connection's
ControlDiscReq(chs, h, c) ==
    IF chs[c].state = "Connected" /\ chs[c].conn = h
    THEN [chs EXCEPT ![c] = ChanDisconnected]
    ELSE chs

\* handle_acl on the signalling channel with a signal that decodes; the
\* response goes to the single-slot outbound signal channel, which is taken
\* to have room (the peer waits for a response before its next request)
RunReadSignal(h, tag, c) ==
    /\ AtSelect
    /\ Len(signals) < 1
    /\ IF tag = "ConnReq"
       THEN /\ channels' = ControlConnReq(channels, h)
            /\ signals' = Append(signals, [conn |-> h, tag |-> ConnRspStatus(channels)])
       ELSE /\ channels' = ControlDiscReq(channels, h, c)
            /\ signals' = Append(signals, [conn |-> h, tag |-> "DiscRsp"])
    /\ Continue("ReadSignal", NoCmd)
    /\ UNCHANGED <<poolVars, connVars, att_mtu, queueVars, control, scanner, gattVars, notifyVars>>

\* ChannelManager::dispatch storing a K-frame in the channel ch: the Pdu
\* joins the receive queue and one local credit is used; credits that drop
\* below the low-water mark are restored to the initial value
DispatchStore(ch) ==
    [ch EXCEPT !.rx = @ + 1,
               !.credits = IF ch.credits - 1 < LOW_WATER THEN INITIAL_CREDITS ELSE ch.credits - 1]

\* that frame makes the channel emit a Flow Control Credit Ind
DispatchEmits(ch) == ch.credits - 1 < LOW_WATER

\* handle_acl on a dynamic channel id, the local CID of slot c:
\* channels.dispatch(packet). A frame for a slot that holds no channel is an
\* error that the loop logs. For a channel, a Pdu is allocated under the
\* channel's AllocId from the host's pool, whose usage array has HostClients
\* entries: an id beyond it panics in the index; without a buffer the frame
\* is dropped and no credit is used. The Flow Control Credit Ind goes to the
\* single-slot outbound signal channel, which is taken to have room.
RunReadDynamic(c) ==
    /\ AtSelect
    /\ Len(signals) < 1
    /\ IF channels[c].state # "Connected"
       THEN /\ Continue("ReadDynamic", NoCmd)
            /\ UNCHANGED <<poolVars, bufs, channels, signals>>
       ELSE IF dynamic(c) >= HostClients
       THEN /\ Panic("ReadDynamic", NoCmd)
            /\ UNCHANGED <<bufs, channels, signals>>
       ELSE LET ps == PoolAlloc(PoolState, dynamic(c))
                o == AllocOutcome(dynamic(c))
                p == AllocatedPacket(PoolState, dynamic(c))
            IN IF o = "panic"
               THEN PanicIn("ReadDynamic", ps) /\ UNCHANGED <<bufs, channels, signals>>
               ELSE IF o = "None"
               THEN /\ SetPool(ps)
                    /\ Continue("ReadDynamic", NoCmd)
                    /\ UNCHANGED <<bufs, channels, signals>>
               ELSE /\ SetPool(ps)
                    /\ bufs' = [bufs EXCEPT ![p.idx] = Body("KFrame", 0)]
                    /\ channels' = [channels EXCEPT ![c] = DispatchStore(channels[c])]
                    /\ signals' = IF DispatchEmits(channels[c])
                                  THEN Append(signals, [conn |-> channels[c].conn,
                                                        tag |-> "FlowControlCreditInd"])
                                  ELSE signals
                    /\ Continue("ReadDynamic", NoCmd)
    /\ UNCHANGED <<connVars, att_mtu, att_inbound, att_pending, outbound, tx_cur, next_seq,
                   wr_seq, driver_tx, control, scanner, gattVars, notifyVars>>

\* select4 polls channels.signal() last
SignalReady == AtSelect /\ outbound = <<>> /\ control = <<>> /\ signals # <<>>

\* Either4::Fourth((handle, response)); write_ok: the outcome of write_acl_data
RunSignal(write_ok) ==
    /\ SignalReady
    /\ signals' = Tail(signals)
    /\ IF write_ok
       THEN Continue("Signal", NoCmd) /\ UNCHANGED poolVars
       ELSE Panic("Signal", NoCmd)
    /\ UNCHANGED <<connVars, att_mtu, queueVars, control, scanner, channels, gattVars, notifyVars>>

\* the part of the loop that handles signalling, and the link events that
\* create and end the connections the channels belong to
ChanNext ==
    \/ \E h \in Handles, info \in Infos, ok \in BOOLEAN : RunReadLeConnectionComplete(h, info, ok)
    \/ \E h \in Handles : RunReadDisconnectionComplete(h)
    \/ \E h \in Handles, tag \in {"ConnReq", "DiscReq"}, c \in ChanSlots : RunReadSignal(h, tag, c)
    \/ \E c \in ChanSlots : RunReadDynamic(c)
    \/ \E ok \in BOOLEAN : RunSignal(ok)

\* the part of the loop that handles link events and commands, with the
\* task that accepts connections
LinkNext ==
    \/ RunReadErr
    \/ RunReadOtherKind
    \/ RunReadAclMalformed
    \/ RunReadEventMalformed
    \/ RunReadL2capMalformed
    \/ RunReadSignalMalformed
    \/ RunReadOtherCid
    \/ RunReadOtherEvent
    \/ \E h \in Handles, info \in Infos, ok \in BOOLEAN : RunReadLeConnectionComplete(h, info, ok)
    \/ \E h \in Handles : RunReadDisconnectionComplete(h)
    \/ RunReadLeAdvertisingReport
    \/ \E c \in ControlCommands : ControlSend(c)
    \/ \E ok \in BOOLEAN : RunControlDisconnect(ok)
    \/ \E ok \in BOOLEAN : RunControlConnect(ok)
    \/ AcceptStart
    \/ PollAcceptReady
    \/ PollAcceptPending
    \/ AcceptCancel

\* ------------------------------------------- handle_acl, the ATT channel

\* handle_acl for a frame of connection h on the ATT channel whose payload is
\* body: a Packet is allocated, the payload copied into its buffer (a payload
\* longer than the buffer panics in the slice index) and the Pdu sent to
\* att_inbound, where the loop waits while the queue is full
RunReadAtt(h, body) ==
    /\ AtSelect
    /\ LET ps == PoolAlloc(PoolState, ATT_ID)
           o == AllocOutcome(ATT_ID)
           p == AllocatedPacket(PoolState, ATT_ID)
       IN IF o = "panic"
          THEN PanicIn("ReadAtt", ps) /\ UNCHANGED <<bufs, att_inbound, att_pending>>
          ELSE IF o = "None"
          THEN /\ SetPool(ps)
               /\ Continue("ReadAtt", NoCmd)
               /\ UNCHANGED <<bufs, att_inbound, att_pending>>
          ELSE IF body.tag = "Oversize"
          THEN PanicIn("ReadAtt", ps) /\ UNCHANGED <<bufs, att_inbound, att_pending>>
          ELSE /\ SetPool(ps)
               /\ bufs' = [bufs EXCEPT ![p.idx] = body]
               /\ IF Len(att_inbound) < L2CAP_RXQ
                  THEN /\ att_inbound' = Append(att_inbound, Pdu(h, p, "FirstFlushable", 0, PayloadLen(body)))
                       /\ att_pending' = att_pending
                       /\ Continue("ReadAtt", NoCmd)
                  ELSE /\ att_pending' = Pdu(h, p, "FirstFlushable", 0, PayloadLen(body))
                       /\ att_inbound' = att_inbound
                       /\ run_pc' = "att_send"
                       /\ run_last' = [step |-> "ReadAtt", cmd |-> NoCmd]
    /\ UNCHANGED <<connVars, att_mtu, outbound, tx_cur, next_seq, wr_seq, driver_tx,
                   control, scanner, channels, signals, gattVars, notifyVars>>

\* att_inbound.send(..).await completes once the queue has room
RunAttSendResume ==
    /\ run_pc = "att_send"
    /\ ~panicked
    /\ Len(att_inbound) < L2CAP_RXQ
    /\ att_inbound' = Append(att_inbound, att_pending)
    /\ att_pending' = NoPdu
    /\ Continue("AttSendResume", NoCmd)
    /\ UNCHANGED <<poolVars, connVars, att_mtu, bufs, outbound, tx_cur, next_seq, wr_seq,
                   driver_tx, control, scanner, channels, signals, gattVars, notifyVars>>

\* ------------------------------------------ Adapter::run, outbound Pdus

\* Channel::receive on a queue with the receiver taking the newest element
OutboundReceiveNewest(q) == q[Len(q)]

\* self.outbound.receive(): the element the loop takes from the queue
OutboundReceive(q) == Head(q)

\* the queue without the element in position i
Without(q, i) == SubSeq(q, 1, i - 1) \o SubSeq(q, i + 1, Len(q))
PositionOf(q, x) == CHOOSE i \in 1 .. Len(q) : q[i] = x

\* Either4::Second((handle, pdu)): the Pdu is taken and encoded into tx
RunOutbound ==
    /\ AtSelect
    /\ outbound # <<>>
    /\ tx_cur' = OutboundReceive(outbound)
    /\ outbound' = Without(outbound, PositionOf(outbound, OutboundReceive(outbound)))
    /\ run_pc' = "writing"
    /\ run_last' = [step |-> "Outbound", cmd |-> NoCmd]
    /\ UNCHANGED <<poolVars, connVars, att_mtu, bufs, att_inbound, att_pending, next_seq,
                   wr_seq, driver_tx, control, scanner, channels, signals, gattVars, notifyVars>>

\* try_write returns Ok(None): the write waker is registered, the loop waits
RunWritePending ==
    /\ run_pc = "writing"
    /\ ~panicked
    /\ run_last' = [step |-> "WritePending", cmd |-> NoCmd]
    /\ UNCHANGED <<poolVars, connVars, att_mtu, run_pc, queueVars, control, scanner,
                   channels, signals, gattVars, notifyVars>>

\* try_write returns Ok(Some(_)): the driver has the packet, the Pdu is dropped
RunWriteOk ==
    /\ run_pc = "writing"
    /\ ~panicked
    /\ driver_tx' = [conn |-> tx_cur.conn, pb |-> tx_cur.pb, seq |-> tx_cur.seq]
    /\ wr_seq' = (wr_seq + 1) % SeqMod
    /\ SetPool(PoolFree(PoolState, tx_cur.pkt))
    /\ tx_cur' = NoPdu
    /\ Continue("WriteOk", NoCmd)
    /\ UNCHANGED <<connVars, att_mtu, bufs, att_inbound, att_pending, outbound, next_seq,
                   control, scanner, channels, signals, gattVars, notifyVars>>

\* try_write returns Err: panic!(":(")
RunWriteErr ==
    /\ run_pc = "writing"
    /\ ~panicked
    /\ Panic("WriteErr", NoCmd)
    /\ UNCHANGED <<connVars, att_mtu, queueVars, control, scanner, channels, signals,
                   gattVars, notifyVars>>

\* ------------------------------------------------- ATT MTU of a connection

Min(a, b) == IF a <= b THEN a ELSE b

\* the slots that hold connection h
KnownSlots(conns, h) ==
    {i \in Slots : conns[i].state # "Disconnected" /\ conns[i].handle = h}

\* exchange_att_mtu(handle, peer_mtu): the MTUs stored afterwards
exchange_att_mtu(mtus, conns, h, peer_mtu) ==
    [i \in Slots |->
        IF i \in KnownSlots(conns, h) THEN Min(peer_mtu, LOCAL_MAX_MTU) ELSE mtus[i]]

\* exchange_att_mtu(handle, peer_mtu): the value returned
exchange_att_mtu_ret(conns, h, peer_mtu) ==
    IF KnownSlots(conns, h) = {} THEN ATT_MTU_DEFAULT ELSE Min(peer_mtu, LOCAL_MAX_MTU)

\* get_att_mtu(handle)
get_att_mtu(mtus, conns, h) ==
    IF KnownSlots(conns, h) = {}
    THEN ATT_MTU_DEFAULT
    ELSE mtus[CHOOSE i \in KnownSlots(conns, h) : \A j \in KnownSlots(conns, h) : i <= j]

\* ------------------------------------------------------- GattServer::next

\* the response always carries the default MTU
ExchangeMtuResponseDefault(mtu) == Frame("MtuRsp", ATT_MTU_DEFAULT, 3, 4, 3)

\* data.write(ATT_EXCHANGE_MTU_RESPONSE_OPCODE); data.write(mtu);
\* header.write(data.len() as u16); header.write(4 as u16)
ExchangeMtuResponse(mtu) == Frame("MtuRsp", mtu, 3, 4, 3)

\* WriteCursor::truncate(n): the cursor keeps at most n bytes
truncate(len, n) == Min(len, n)

\* a response of the attribute server of written bytes: data.commit(written);
\* data.truncate(mtu); header.write(written as u16); header.write(4 as u16)
ProcessResponse(mtu, written) == Frame("Rsp", mtu, written, 4, truncate(written, mtu))

\* header.len() + data.len() of the frame f
TotalLen(f) == 4 + f.data_len

\* Att::decode succeeds on the bytes of a request
Decodes(body) == body.tag \in {"ExchangeMtu", "Other", "Write"}

\* next() is at rx.receive() and a Pdu is waiting
GattReady == gatt_pc = "receive" /\ ~panicked /\ att_inbound # <<>>

\* the request taken from att_inbound, and the bytes its buffer holds now
GattReq == Head(att_inbound)
GattReqBody == bufs[GattReq.pkt.idx]

\* self.tx.send((handle, Pdu::new(response, len))).await for the response rsp
\* to request req, with the pool in state ps; the request is dropped when the
\* iteration ends
GattSend(req, rsp, ps) ==
    IF Len(outbound) < L2CAP_TXQ
    THEN /\ outbound' = Append(outbound, [rsp EXCEPT !.seq = next_seq])
         /\ next_seq' = (next_seq + 1) % SeqMod
         /\ SetPool(PoolFree(ps, req.pkt))
         /\ gatt_pc' = "receive"
         /\ gatt_cur' = <<NoPdu, NoPdu>>
         /\ gatt_ret' = gatt_ret
    ELSE /\ UNCHANGED <<outbound, next_seq>>
         /\ SetPool(ps)
         /\ gatt_pc' = "sending"
         /\ gatt_cur' = <<req, rsp>>
         /\ gatt_ret' = gatt_ret

\* Att::decode fails: the error is logged, the Pdu dropped
GattDecodeErr ==
    /\ GattReady
    /\ ~Decodes(GattReqBody)
    /\ att_inbound' = Tail(att_inbound)
    /\ SetPool(PoolFree(PoolState, GattReq.pkt))
    /\ UNCHANGED <<connVars, att_mtu, run_pc, run_last, driver_tx, bufs, att_pending,
                   outbound, tx_cur, next_seq, wr_seq, control, scanner, channels,
                   signals, gattVars, notifyVars>>

\* no Packet for the response: next() returns Err(()) and is called again
GattAllocFail ==
    /\ GattReady
    /\ Decodes(GattReqBody)
    /\ AllocOutcome(ATT_ID) # "Some"
    /\ att_inbound' = Tail(att_inbound)
    /\ IF AllocOutcome(ATT_ID) = "panic"
       THEN SetPool(PoolAlloc(PoolState, ATT_ID))
       ELSE SetPool(PoolFree(PoolAlloc(PoolState, ATT_ID), GattReq.pkt))
    /\ gatt_ret' = "Err"
    /\ UNCHANGED <<connVars, att_mtu, run_pc, run_last, driver_tx, bufs, att_pending,
                   outbound, tx_cur, next_seq, wr_seq, control, scanner, channels,
                   signals, gatt_pc, gatt_cur, notifyVars>>

\* Att::ExchangeMtu { mtu }
GattExchangeMtu ==
    /\ GattReady
    /\ GattReqBody.tag = "ExchangeMtu"
    /\ AllocOutcome(ATT_ID) = "Some"
    /\ att_inbound' = Tail(att_inbound)
    /\ att_mtu' = exchange_att_mtu(att_mtu, connections, GattReq.conn, GattReqBody.mtu)
    /\ LET r == AllocatedPacket(PoolState, ATT_ID)
           mtu == exchange_att_mtu_ret(connections, GattReq.conn, GattReqBody.mtu)
       IN /\ bufs' = [bufs EXCEPT ![r.idx] = ExchangeMtuResponse(mtu)]
          /\ GattSend(GattReq,
                      Pdu(GattReq.conn, r, "FirstNonFlushable", 0,
                          TotalLen(ExchangeMtuResponse(mtu))),
                      PoolAlloc(PoolState, ATT_ID))
    /\ UNCHANGED <<connVars, run_pc, run_last, driver_tx, att_pending, tx_cur, wr_seq,
                   control, scanner, channels, signals, notifyVars>>

\* any other request; res, written: what AttributeServer::process returns.
\* Whatever the request, the iteration ends at the bottom of the loop: next()
\* has no return of Ok(..)
GattProcess(res, written) ==
    /\ GattReady
    /\ GattReqBody.tag \in {"Other", "Write"}
    /\ AllocOutcome(ATT_ID) = "Some"
    /\ att_inbound' = Tail(att_inbound)
    /\ LET r == AllocatedPacket(PoolState, ATT_ID)
           mtu == get_att_mtu(att_mtu, connections, GattReq.conn)
           ps == PoolAlloc(PoolState, ATT_ID)
       IN IF res = "Some"
          THEN /\ bufs' = [bufs EXCEPT ![r.idx] = ProcessResponse(mtu, written)]
               /\ GattSend(GattReq,
                           Pdu(GattReq.conn, r, "FirstNonFlushable", 0,
                               TotalLen(ProcessResponse(mtu, written))),
                           ps)
          ELSE /\ SetPool(PoolFree(PoolFree(ps, r), GattReq.pkt))
               /\ UNCHANGED <<bufs, outbound, next_seq, gattVars>>
    /\ UNCHANGED <<connVars, att_mtu, run_pc, run_last, driver_tx, att_pending, tx_cur,
                   wr_seq, control, scanner, channels, signals, notifyVars>>

\* tx.send(..).await completes once the outbound queue has room
GattSendResume ==
    /\ gatt_pc = "sending"
    /\ ~panicked
    /\ Len(outbound) < L2CAP_TXQ
    /\ GattSend(gatt_cur[1], gatt_cur[2], PoolState)
    /\ UNCHANGED <<connVars, att_mtu, run_pc, run_last, driver_tx, bufs, att_inbound,
                   att_pending, tx_cur, wr_seq, control, scanner, channels, signals, notifyVars>>

\* ------------------------------------------------------ GattServer::notify

\* the notification frame for attribute handle hdl and a value of len bytes:
\* data.write(ATT_HANDLE_VALUE_NTF_OPTCODE); data.write(handle.handle);
\* data.append(value); header.write(data.len() as u16); header.write(4 as u16)
Notification(hdl, len) == Frame("Ntf", hdl, 3 + len, 4, 3 + len)

\* data.append succeeds whatever the length
AppendFitsAlways(value) == TRUE

\* data.append(value) after opcode and handle: the cursor over the buffer
\* behind the 4-byte header has room for the value
AppendFits(value) == 3 + value <= L2CAP_MTU - 4

\* the bytes left in the buffer when data.append(value) fails: opcode and
\* handle, no header yet
NotificationPartial(hdl) == Frame("NtfPartial", hdl, 0, 0, 3)

\* self.tx.send((conn, Pdu::new(packet, total))).await; Ok(())
NotifySend(pdu) ==
    IF Len(outbound) < L2CAP_TXQ
    THEN /\ outbound' = Append(outbound, [pdu EXCEPT !.seq = next_seq])
         /\ next_seq' = (next_seq + 1) % SeqMod
         /\ notify_pc' = "idle"
         /\ notify_cur' = NoPdu
         /\ notify_ret' = "Ok"
    ELSE /\ UNCHANGED <<outbound, next_seq>>
         /\ notify_pc' = "sending"
         /\ notify_cur' = pdu
         /\ notify_ret' = "pending"

\* notify returns ret without having touched the pool or the queue
NotifyReturn(ret) ==
    /\ notify_ret' = ret
    /\ UNCHANGED <<poolVars, bufs, outbound, next_seq, notify_pc, notify_cur>>

\* notify(handle, connection, value). set_ok: table.set finds the
\* characteristic; subscribed: what should_notify(conn, cccd_handle) returns
Notify(char, h, value, set_ok, subscribed) ==
    /\ notify_pc = "idle"
    /\ ~panicked
    /\ IF ~set_ok
       THEN NotifyReturn("Err") /\ table' = table
       ELSE /\ table' = [table EXCEPT ![char.handle] = value]
            /\ IF ~char.cccd
               THEN NotifyReturn("Err")
               ELSE IF ~subscribed
               THEN NotifyReturn("Ok")
               ELSE LET o == AllocOutcome(ATT_ID)
                        ps == PoolAlloc(PoolState, ATT_ID)
                        r == AllocatedPacket(PoolState, ATT_ID)
                    IN IF o # "Some"
                       THEN /\ SetPool(ps)
                            /\ notify_ret' = "Err"
                            /\ UNCHANGED <<bufs, outbound, next_seq, notify_pc, notify_cur>>
                       ELSE IF ~AppendFits(value)
                       THEN /\ SetPool(PoolFree(ps, r))
                            /\ bufs' = [bufs EXCEPT ![r.idx] = NotificationPartial(char.handle)]
                            /\ notify_ret' = "Err"
                            /\ UNCHANGED <<outbound, next_seq, notify_pc, notify_cur>>
                       ELSE /\ SetPool(ps)
                            /\ bufs' = [bufs EXCEPT ![r.idx] = Notification(char.handle, value)]
                            /\ NotifySend(Pdu(h, r, "FirstNonFlushable", 0,
                                              TotalLen(Notification(char.handle, value))))
    /\ UNCHANGED <<connVars, att_mtu, run_pc, run_last, driver_tx, att_inbound, att_pending,
                   tx_cur, wr_seq, control, scanner, channels, signals, gattVars>>

\* tx.send(..).await of notify completes once the outbound queue has room
NotifySendResume ==
    /\ notify_pc = "sending"
    /\ ~panicked
    /\ Len(outbound) < L2CAP_TXQ
    /\ NotifySend(notify_cur)
    /\ UNCHANGED <<poolVars, connVars, att_mtu, run_pc, run_last, driver_tx, bufs, att_inbound,
                   att_pending, tx_cur, wr_seq, control, scanner, channels, signals, gattVars,
                   table>>

\* the outbound path: requests of all connections reach the GATT server, its
\* responses are queued and written to the driver; the driver's errors
TxNext ==
    \/ RunReadErr
    \/ \E h \in Handles : RunReadAtt(h, Body("Other", 0))
    \/ RunAttSendResume
    \/ GattDecodeErr
    \/ GattProcess("Some", 3)
    \/ GattSendResume
    \/ RunOutbound
    \/ RunWritePending
    \/ RunWriteOk
    \/ RunWriteErr

\* the MTU exchange: links come and go, the peer of handle 1 sends ATT
\* requests and the GATT server answers them; the loop's writes are left out,
\* so the server answers until outbound is full
MtuNext ==
    \/ \E h \in Handles : RunReadLeConnectionComplete(h, "info_a", TRUE)
    \/ \E h \in Handles : RunReadDisconnectionComplete(h)
    \/ \E body \in AttBodies \ {Body("Write", 0)} : RunReadAtt(1, body)
    \/ RunAttSendResume
    \/ GattDecodeErr
    \/ GattExchangeMtu
    \/ \E res \in {"Some", "None", "Err"} : GattProcess(res, 3)

\* the GATT server answering the requests of connection 1, short and long
\* responses, while the loop writes the outbound queue to the driver
GattNext ==
    \/ \E tag \in {"Other", "Write"} : RunReadAtt(1, Body(tag, 0))
    \/ RunAttSendResume
    \/ \E res \in {"Some", "None", "Err"}, written \in Written : GattProcess(res, written)
    \/ GattSendResume
    \/ RunOutbound
    \/ RunWriteOk

\* the application notifying connection 1; the loop writes the outbound
\* queue to the driver
NotifyNext ==
    \/ \E char \in Chars, value \in NotifyValues, set_ok \in BOOLEAN, subscribed \in BOOLEAN :
            Notify(char, 1, value, set_ok, subscribed)
    \/ NotifySendResume
    \/ RunOutbound
    \/ RunWriteOk

\* the application notifying connection 1, whose peer exchanges the MTU; the
\* ATT client's share of the pool is used up before the outbound queue fills,
\* so no send has to wait
NotifyMtuNext ==
    \/ RunReadLeConnectionComplete(1, "info_a", TRUE)
    \/ \E m \in PeerMtus : RunReadAtt(1, Body("ExchangeMtu", m))
    \/ GattExchangeMtu
    \/ \E char \in Chars, value \in NotifyValues, set_ok \in BOOLEAN, subscribed \in BOOLEAN :
            Notify(char, 1, value, set_ok, subscribed)
    \/ RunOutbound
    \/ RunWriteOk

\* the link events and the control commands
EventNext ==
    \/ \E h \in Handles, info \in Infos, ok \in BOOLEAN : RunReadLeConnectionComplete(h, info, ok)
    \/ \E h \in Handles : RunReadDisconnectionComplete(h)
    \/ \E c \in ControlCommands : ControlSend(c)
    \/ \E ok \in BOOLEAN : RunControlDisconnect(ok)
    \/ \E ok \in BOOLEAN : RunControlConnect(ok)

\* ---------------------------------------------------------- specifications

Init == PoolInit /\ ConnInit /\ HostInit

Next == PoolNext \/ ConnNext

Spec == Init /\ [][Next]_vars

\* The pool alone, under every Qos policy and both build profiles.
PoolSpec == Init /\ [][PoolNext]_vars

\* The connection manager alone (the pool stays as constructed).
ConnSpecInit == Init /\ qos = QosNone /\ overflow_checks = FALSE

ConnSpec == ConnSpecInit /\ [][ConnNext]_vars

\* The connection manager with a scheduler that eventually polls a task that
\* is ready to run: the executor polls the accept() future when it is first
\* awaited and again each time its waker was woken.
ConnFairSpec ==
    /\ ConnSpecInit
    /\ [][ConnNext]_vars
    /\ WF_vars(PollAcceptReady)
    /\ WF_vars(PollAcceptPending)

\* the event loop handling link events, with the pool at rest
LinkSpec == ConnSpecInit /\ [][LinkNext]_vars

\* the event loop handling L2CAP signalling, with the pool at rest
ChanSpec == ConnSpecInit /\ [][ChanNext]_vars

\* the loop handling link events and control commands only
EventSpec == ConnSpecInit /\ [][EventNext]_vars

\* notifications, with the pool under the policy None (the outbound queue
\* fills before the pool is empty) or Fair (the ATT client runs out of
\* buffers before the queue is full)
NotifySpecInit == Init /\ qos \in {QosNone, QosFair} /\ overflow_checks = FALSE

NotifySpec == NotifySpecInit /\ [][NotifyNext]_vars

\* notifications after an MTU exchange, with the pool under the policy Fair
NotifyMtuSpecInit == Init /\ qos = QosFair /\ overflow_checks = FALSE

NotifyMtuSpec == NotifyMtuSpecInit /\ [][NotifyMtuNext]_vars

\* the outbound path, with the pool under the policy None
TxSpec == ConnSpecInit /\ [][TxNext]_vars

\* the MTU exchange, with the pool under the policy None
MtuSpec == ConnSpecInit /\ [][MtuNext]_vars

\* the GATT server's responses, with the pool under the policy None
GattSpec == ConnSpecInit /\ [][GattNext]_vars

\* ------------------------------------------------------------ packet pool

\* The number of live Packet handles allocated by client id
LiveOf(id) == BagCardinality([h \in {x \in BagToSet(live) : x.client = id} |-> live[h]])

\* C1: after any sequence of alloc and drop, under any Qos policy, the sum of
\* the usage counters equals the number of live Packet handles, never exceeds
\* N, and no usage counter is below 0.
C1_UsageMatchesLive ==
    /\ UsageSum(usage) = BagCardinality(live)
    /\ UsageSum(usage) <= N
    /\ \A id \in AllocIds : usage[id] >= 0

\* C2: any two live Packet handles reference distinct buffer indices.
C2_DistinctBuffers ==
    /\ \A h \in BagToSet(live) : CopiesIn(h, live) = 1
    /\ \A h1, h2 \in BagToSet(live) : h1 # h2 => h1.idx # h2.idx

\* C3: under Qos::Guaranteed(k) with k >= 1 and k * CLIENTS <= N, a client
\* that holds fewer than k buffers can always allocate one more.
C3_GuaranteeHonoured ==
    (qos.kind = "Guaranteed" /\ qos.n >= 1 /\ qos.n * CLIENTS <= N)
        => \A id \in AllocIds : usage[id] < qos.n => AllocOutcome(id) = "Some"

\* C4: under Qos::Fair a client holds at most N / CLIENTS buffers; its alloc
\* returns None exactly when it holds that many, whatever the other clients
\* hold, and succeeds again as soon as it holds fewer.
C4_FairShare ==
    qos.kind = "Fair" =>
        /\ \A id \in AllocIds :
            /\ usage[id] <= N \div CLIENTS
            /\ LiveOf(id) = usage[id]
            /\ usage[id] = N \div CLIENTS => AllocOutcome(id) = "None"
            /\ usage[id] < N \div CLIENTS => AllocOutcome(id) = "Some"
        /\ (last.op = "alloc" /\ last.result = "None") => usage[last.id] = N \div CLIENTS

C4_Witness ==
    /\ qos.kind = "Fair"
    /\ last = [op |-> "alloc", id |-> 0, idx |-> 0, result |-> "None"]
    /\ usage[0] = 2
    /\ usage[1] = 1
    /\ AllocOutcome(1) = "Some"

\* C5: under Qos::Guaranteed(1), a client allocating from an otherwise empty
\* pool gets exactly N - (CLIENTS - 1) buffers; while it holds them every other
\* client can allocate exactly one buffer.
C5_GuaranteedOne ==
    (qos.kind = "Guaranteed" /\ qos.n = 1) =>
        \A c \in AllocIds :
            /\ (\A j \in AllocIds \ {c} : usage[j] = 0)
                => (AllocOutcome(c) = "Some" <=> usage[c] < N - (CLIENTS - 1))
            /\ usage[c] = N - (CLIENTS - 1)
                => \A j \in AllocIds \ {c} :
                    /\ usage[j] <= 1
                    /\ AllocOutcome(j) = "Some" <=> usage[j] = 0
            /\ (last.op = "alloc" /\ last.id = c /\ last.result = "None"
                    /\ \A j \in AllocIds \ {c} : usage[j] = 0)
                => usage[c] = N - (CLIENTS - 1)

C5_Witness ==
    /\ qos = QosGuaranteed(1)
    /\ usage = [c \in AllocIds |-> IF c = 0 THEN 5 ELSE 1]
    /\ last = [op |-> "alloc", id |-> 3, idx |-> 0, result |-> "None"]

\* C6: under Qos::None the clients together hold at most N buffers; any
\* client's alloc succeeds while fewer than N are held and returns None while
\* all N are held.
C6_NoneAggregate ==
    qos.kind = "None" =>
        /\ UsageSum(usage) <= N
        /\ UsageSum(usage) = BagCardinality(live)
        /\ \A id \in AllocIds : AllocOutcome(id) = "Some" <=> UsageSum(usage) < N
        /\ (last.op = "alloc" /\ last.result = "None") => UsageSum(usage) = N

C6_Witness ==
    /\ qos.kind = "None"
    /\ usage = [c \in AllocIds |-> IF c = 0 THEN 7 ELSE IF c = 1 THEN 1 ELSE 0]
    /\ last = [op |-> "alloc", id |-> 1, idx |-> 0, result |-> "None"]

\* C7: alloc never panics; when it does not return a Packet it returns None
\* and leaves the usage counters and the free flags unchanged.
C7_AllocNeverPanics ==
    [][(last'.op = "alloc" /\ last'.result # "Some")
        => (last'.result = "None" /\ ~panicked' /\ usage' = usage /\ packets' = packets)]_vars

\* C8: dropping a Packet marks its buffer free, decrements the usage counter
\* of the client that allocated it by exactly 1, removes exactly that one
\* handle, and leaves the other counters and flags unchanged.
C8_DropReleasesOnce ==
    [][last'.op = "drop" =>
        /\ packets'[last'.idx]
        /\ \A i \in BufIdx \ {last'.idx} : packets'[i] = packets[i]
        /\ usage'[last'.id] = usage[last'.id] - 1
        /\ \A c \in AllocIds \ {last'.id} : usage'[c] = usage[c]
        /\ BagIn(Handle(last'.id, last'.idx), live)
        /\ live' (+) SetToBag({Handle(last'.id, last'.idx)}) = live]_vars

C8_Witness ==
    /\ last.op = "drop"
    /\ last.id = 1
    /\ usage[1] = 1
    /\ usage[0] = 2

\* ------------------------------------------------------ connection manager

\* C9: a slot changes only Disconnected -> Connecting(h) by connect(h),
\* Connecting(h) -> Connected(h) with the same handle and info by accept, and
\* Connecting(h) or Connected(h) -> Disconnected by disconnect(h).
C9_SlotTransitions ==
    [][\A i \in Slots :
        LET a == connections[i]
            b == connections'[i]
        IN \/ a = b
           \/ /\ a.state = "Disconnected"
              /\ b.state = "Connecting"
              /\ conn_last'.op = "connect"
              /\ b.handle = conn_last'.handle
           \/ /\ a.state = "Connecting"
              /\ b = Connected(a.handle, a.info)
              /\ conn_last'.op = "poll_accept"
           \/ /\ a.state \in {"Connecting", "Connected"}
              /\ b = Disconnected
              /\ conn_last'.op = "disconnect"
              /\ conn_last'.handle = a.handle]_vars

C9_Witness ==
    /\ connections[0].state = "Connected"
    /\ connections[1].state = "Connecting"
    /\ conn_last.op = "connect"

\* C10: a poll of accept() completes exactly when some slot is Connecting; it
\* then turns the lowest-index Connecting slot into Connected and returns that
\* slot's handle; otherwise it suspends and changes no slot.
C10_AcceptLowestConnecting ==
    [][conn_last'.op = "poll_accept" =>
        LET ready == SlotsIn(connections, "Connecting")
        IN IF ready # {}
           THEN \E i \in ready :
                    /\ \A j \in ready : i <= j
                    /\ conn_last'.result = "Ready"
                    /\ conn_last'.handle = connections[i].handle
                    /\ connections' = [connections EXCEPT ![i] =
                            Connected(connections[i].handle, connections[i].info)]
                    /\ acceptor' = "idle"
           ELSE /\ conn_last'.result = "Pending"
                /\ connections' = connections
                /\ acceptor' = "pending"]_vars

C10_Witness ==
    /\ conn_last = [op |-> "poll_accept", handle |-> 1, result |-> "Ready"]
    /\ connections[0] = Connected(1, "info_a")
    /\ connections[1].state = "Connecting"
    /\ connections[1].handle = 2

\* C11: connect(handle, info) puts Connecting(handle, info) into the
\* lowest-index Disconnected slot and changes no other slot; it fails, leaving
\* the table unchanged, exactly when no slot is Disconnected.
C11_ConnectFirstFree ==
    [][conn_last'.op = "connect" =>
        LET free == SlotsIn(connections, "Disconnected")
        IN IF free # {}
           THEN \E i \in free :
                    /\ \A j \in free : i <= j
                    /\ conn_last'.result = "Ok"
                    /\ connections'[i].state = "Connecting"
                    /\ connections'[i].handle = conn_last'.handle
                    /\ connections'[i].info \in Infos
                    /\ \A j \in Slots \ {i} : connections'[j] = connections[j]
           ELSE /\ conn_last'.result = "Err"
                /\ connections' = connections]_vars

C11_Witness ==
    /\ conn_last = [op |-> "connect", handle |-> 2, result |-> "Err"]
    /\ \A i \in Slots : connections[i].state # "Disconnected"
    /\ \A i \in Slots : connections[i].handle = 1

\* C12: disconnect(h) always succeeds; it sets every slot in Connecting(h) or
\* Connected(h) to Disconnected and leaves every other slot unchanged, and
\* applying it again to the resulting table changes nothing.
C12_DisconnectIdempotent ==
    [][conn_last'.op = "disconnect" =>
        LET h == conn_last'.handle
        IN /\ conn_last'.result = "Ok"
           /\ \A i \in Slots :
                connections'[i] =
                    IF connections[i].state \in {"Connecting", "Connected"}
                       /\ connections[i].handle = h
                    THEN Disconnected
                    ELSE connections[i]
           /\ DisconnectSlots(connections', h) = connections'
           /\ (\A i \in Slots : connections[i].handle \in {0, h})
                => SlotsIn(connections', "Connecting") = {}]_vars

C12_Witness ==
    /\ conn_last = [op |-> "disconnect", handle |-> 1, result |-> "Ok"]
    /\ connections[0] = Disconnected
    /\ connections[1].state = "Connected"
    /\ connections[1].handle = 2

\* C14: a poll of accept() that returns Pending and the drop of an accept()
\* future change no slot; a slot leaves Connecting for Connected only in a
\* poll that returns that slot's handle, one slot per poll.
C14_AcceptCancelSafe ==
    [][/\ (conn_last'.op = "poll_accept" /\ conn_last'.result = "Pending")
            => connections' = connections
       /\ conn_last'.op = "cancel" => connections' = connections
       /\ \A i \in Slots :
            (connections[i].state = "Connecting" /\ connections'[i].state = "Connected")
                => /\ conn_last' = [op |-> "poll_accept",
                                    handle |-> connections[i].handle,
                                    result |-> "Ready"]
                   /\ \A j \in Slots \ {i} : connections'[j] = connections[j]]_vars

C14_Witness ==
    /\ conn_last.op = "cancel"
    /\ connections[0].state = "Connecting"
    /\ acceptor = "idle"
    /\ ~waker

\* C13: in every state the loop's link events and the accept task can reach,
\* including after a repeated LeConnectionComplete for a handle that is still
\* in the table, no two slots that are Connecting or Connected hold the same
\* ConnHandle.
C13_OneSlotPerHandle ==
    \A i, j \in Slots :
        (/\ connections[i].state # "Disconnected"
         /\ connections[j].state # "Disconnected"
         /\ connections[i].handle = connections[j].handle) => i = j

\* C17: a step of the loop that reads a packet which fails to decode (as an
\* ACL packet, an HCI event, an L2CAP frame or a signalling PDU) leaves the loop
\* at its select for the next iteration, without a panic and with the
\* connection table and the pool as they were.
C17_MalformedFailsOnlyPdu ==
    [][(RunReadAclMalformed \/ RunReadEventMalformed \/ RunReadL2capMalformed
            \/ RunReadSignalMalformed)
        => (run_pc' = "select" /\ ~panicked'
            /\ UNCHANGED <<connections, att_mtu, packets, usage, live>>)]_vars

\* C18: after the loop has handled DisconnectionComplete(h), no connection slot
\* holds h and no channel slot is still owned by connection h.
C18_DisconnectReclaimsChannels ==
    [][\A h \in Handles :
        RunReadDisconnectionComplete(h)
            => (/\ \A i \in Slots :
                    connections'[i].state = "Disconnected" \/ connections'[i].handle # h
                /\ \A c \in ChanSlots :
                    channels'[c].state = "Disconnected" \/ channels'[c].conn # h)]_vars

\* C19: when the loop handles LeConnectionComplete(h) with no Disconnected slot
\* in the table, the table is unchanged and the command issued is Disconnect
\* for h; with a Disconnected slot, the first such slot becomes Connecting(h),
\* every other slot is unchanged and no command is issued.
C19_ConnectionCompleteOutcome ==
    [][\A h \in Handles, info \in Infos, ok \in BOOLEAN :
        RunReadLeConnectionComplete(h, info, ok)
            => IF SlotsIn(connections, "Disconnected") = {}
               THEN /\ connections' = connections
                    /\ run_last'.cmd = [cmd |-> "Disconnect", handle |-> h]
               ELSE /\ connections'[FirstSlot(connections, "Disconnected")]
                           = Connecting(h, info)
                    /\ \A i \in Slots \ {FirstSlot(connections, "Disconnected")} :
                           connections'[i] = connections[i]
                    /\ run_last'.cmd.cmd = "none"]_vars

\* the loop has handled a LeConnectionComplete with the table full
C19_Witness ==
    /\ run_last.step = "LeConnectionComplete"
    /\ run_last.cmd.cmd = "Disconnect"
    /\ SlotsIn(connections, "Disconnected") = {}
    /\ run_pc = "select"

\* the response of the GATT step just taken: queued on outbound, or held by
\* the server while outbound is full
C15_Response == IF gatt_pc = "sending" THEN gatt_cur[2] ELSE outbound[Len(outbound)]

C16_TransportErrorFatal ==
    [][(RunReadErr \/ RunWriteErr) => (run_pc' = "returned" /\ ~panicked')]_vars

\* C20: the loop takes a Pdu from outbound only when none is being written,
\* and the one it takes is the oldest not yet written (its position in the
\* order of enqueueing is the number of Pdus written so far); a write that
\* has to wait keeps that Pdu; the Pdu the driver accepts is that Pdu, with
\* its connection and its boundary flag. Being FIFO over all connections,
\* the order is FIFO for every ConnHandle.
C20_OutboundFifo ==
    [][/\ RunOutbound => (tx_cur = NoPdu /\ tx_cur'.seq = wr_seq)
       /\ RunWritePending => (tx_cur' = tx_cur /\ run_pc' = "writing")
       /\ RunWriteOk =>
            /\ driver_tx' = [conn |-> tx_cur.conn, pb |-> tx_cur.pb, seq |-> wr_seq]
            /\ tx_cur' = NoPdu
      ]_vars

\* a write is waiting for the driver while outbound is full of Pdus of the
\* same connection, after earlier Pdus have been written
C20_Witness ==
    /\ run_pc = "writing"
    /\ run_last.step = "WritePending"
    /\ wr_seq > 0
    /\ Len(outbound) = L2CAP_TXQ
    /\ \A i \in 1 .. Len(outbound) : outbound[i].conn = tx_cur.conn

\* C27: in no reachable state is the loop waiting in att_inbound.send with
\* att_inbound full while the GATT server is waiting in its send with
\* outbound full.
C27_NoMutualWait ==
    ~(/\ run_pc = "att_send"
      /\ Len(att_inbound) = L2CAP_RXQ
      /\ gatt_pc = "sending"
      /\ Len(outbound) = L2CAP_TXQ)

\* C28: the AllocIds the stack uses index the usage array of the pool that
\* HostResources builds: ATT_ID, L2CAP_SIGNAL_ID and the dynamic id of every
\* channel slot in use are smaller than its number of clients.
C28_AllocIdsInRange ==
    /\ ATT_ID < HostClients
    /\ L2CAP_SIGNAL_ID < HostClients
    /\ \A c \in ChanSlots : channels[c].state = "Connected" => dynamic(c) < HostClients

\* C29: under Qos::Guaranteed(k), in every reachable state and for every
\* client that may ask, the reserved total computed by available is at least
\* the shortfall subtracted from it.
C29_ReservedCoversShortfall ==
    qos.kind = "Guaranteed" =>
        \A id \in AllocIds : ReservedForIdle(usage, qos.n) >= Shortfall(usage, qos.n, id)

\* C30: a step of the loop that reads an ACL packet on a channel id that is
\* neither fixed nor dynamic leaves the loop at its select, without a panic,
\* with the connection table and the pool as they were.
C30_UnknownCidDiscarded ==
    [][RunReadOtherCid
        => (run_pc' = "select" /\ ~panicked'
            /\ UNCHANGED <<connections, att_mtu, packets, usage, live>>)]_vars


\* C26: a task pending in accept() that a successful connect has woken
\* eventually has accept() return a handle under fair scheduling, unless no
\* slot is Connecting any more when it runs or the accept() future was dropped;
\* and a pending acceptor always has its waker registered and never coexists
\* with a Connecting slot, so no wake-up is lost between scan and registration.
C26_AcceptWoken ==
    /\ [](acceptor = "pending"
            => (waker /\ SlotsIn(connections, "Connecting") = {}))
    /\ (acceptor = "woken" /\ SlotsIn(connections, "Connecting") # {})
            ~> \/ (conn_last.op = "poll_accept" /\ conn_last.result = "Ready")
               \/ SlotsIn(connections, "Connecting") = {}
               \/ conn_last.op = "cancel"

C26_Witness ==
    /\ acceptor = "woken"
    /\ conn_last.op = "connect"
    /\ conn_last.result = "Ok"
    /\ ~waker
    /\ SlotsIn(connections, "Connecting") # {}


\* C22: a GATT step that answers a request puts a frame on its way to the
\* outbound queue whose header carries channel id 4 and a length equal to the
\* number of body bytes the buffer holds, and the Pdu's length is 4 plus that
\* length field, also when the body was truncated to the MTU.
C22_FrameHeader ==
    [][(GattExchangeMtu \/ \E written \in Written : GattProcess("Some", written)) =>
            LET rsp == IF gatt_pc' = "sending" THEN gatt_cur'[2] ELSE outbound'[Len(outbound')]
                f == bufs'[rsp.pkt.idx]
            IN /\ f.cid = 4
               /\ f.length = f.data_len
               /\ rsp.len = 4 + f.length
      ]_vars

\* C23: when the GATT task has processed a write request and is back at
\* rx.receive(), next() has returned a Write event to its caller.
C23_WriteReturned ==
    [][((\E res \in {"Some", "None", "Err"}, written \in Written : GattProcess(res, written))
            /\ GattReqBody.tag = "Write"
            /\ gatt_pc' = "receive")
         => gatt_ret' = "Write"]_vars


\* the step leaves exactly one notification of value for char, addressed to
\* connection h, on its way to the outbound queue: appended to it, or held by
\* notify while the queue is full
C21_OneNotification(char, h, value) ==
    LET pdu == IF notify_pc' = "sending" THEN notify_cur' ELSE outbound'[Len(outbound')]
        f == bufs'[pdu.pkt.idx]
    IN /\ \/ notify_pc' = "sending" /\ outbound' = outbound /\ notify_ret' = "pending"
          \/ /\ notify_pc' = "idle"
             /\ notify_ret' = "Ok"
             /\ Len(outbound') = Len(outbound) + 1
             /\ SubSeq(outbound', 1, Len(outbound)) = outbound
       /\ pdu.conn = h
       /\ f.tag = "Ntf" /\ f.mtu = char.handle /\ f.data_len = 3 + value
       /\ usage'[ATT_ID] = usage[ATT_ID] + 1

\* the step returns ret, enqueues nothing and leaves the pool's accounting alone
C21_Returns(ret) ==
    /\ notify_ret' = ret
    /\ notify_pc' = "idle"
    /\ outbound' = outbound
    /\ usage' = usage
    /\ live' = live

\* C21 as stated: notify always stores the value; then no CCCD gives an error
\* with nothing enqueued, a client that has not subscribed gives success with
\* no buffer taken and nothing enqueued, and every other call enqueues
\* exactly one notification Pdu for the connection.
C21_NotifyAsStated ==
    [][\A char \in Chars, value \in NotifyValues, set_ok \in BOOLEAN, subscribed \in BOOLEAN :
            Notify(char, 1, value, set_ok, subscribed) =>
                /\ table'[char.handle] = value
                /\ IF ~char.cccd THEN C21_Returns("Err")
                   ELSE IF ~subscribed THEN C21_Returns("Ok") /\ last' = last
                   ELSE C21_OneNotification(char, 1, value)
      ]_vars

\* C21 amended: notify stores the value if the table holds the characteristic
\* and otherwise returns an error having done nothing; after the store, no
\* CCCD gives an error with nothing enqueued, a client that has not subscribed
\* gives success with no buffer taken and nothing enqueued; otherwise, if the
\* pool has a buffer for the ATT client and opcode, handle and value fit in
\* it, exactly one notification Pdu is enqueued for the connection, and if
\* not, notify returns an error with nothing enqueued and no buffer kept.
C21_Notify ==
    [][\A char \in Chars, value \in NotifyValues, set_ok \in BOOLEAN, subscribed \in BOOLEAN :
            Notify(char, 1, value, set_ok, subscribed) =>
                IF ~set_ok THEN C21_Returns("Err") /\ table' = table /\ last' = last
                ELSE /\ table'[char.handle] = value
                     /\ IF ~char.cccd THEN C21_Returns("Err") /\ last' = last
                        ELSE IF ~subscribed THEN C21_Returns("Ok") /\ last' = last
                        ELSE IF AllocOutcome(ATT_ID) = "Some" /\ 3 + value <= L2CAP_MTU - 4
                        THEN C21_OneNotification(char, 1, value)
                        ELSE C21_Returns("Err")
      ]_vars

\* a notification of 110 bytes for characteristic 1 is the newest Pdu on the
\* outbound queue, notify has returned Ok and the table holds the value
C21_Witness ==
    /\ notify_ret = "Ok"
    /\ notify_pc = "idle"
    /\ table[1] = 110
    /\ outbound # <<>>
    /\ bufs[outbound[Len(outbound)].pkt.idx] = Frame("Ntf", 1, 113, 4, 113)
    /\ outbound[Len(outbound)].len = 117


\* C24: when connection 1 is in the table with an MTU m that an exchange has
\* negotiated, a notify step that puts a notification for it on its way to
\* the outbound queue leaves at most m - 3 value bytes in the frame.
C24_NotificationTruncated ==
    [][((\E char \in Chars, value \in NotifyValues, set_ok \in BOOLEAN, subscribed \in BOOLEAN :
            Notify(char, 1, value, set_ok, subscribed))
          /\ notify_ret' \in {"Ok", "pending"}
          /\ (notify_pc' = "sending" \/ Len(outbound') = Len(outbound) + 1)
          /\ KnownSlots(connections, 1) # {}
          /\ get_att_mtu(att_mtu, connections, 1) # ATT_MTU_DEFAULT)
        => LET pdu == IF notify_pc' = "sending" THEN notify_cur' ELSE outbound'[Len(outbound')]
               f == bufs'[pdu.pkt.idx]
           IN f.data_len - 3 <= get_att_mtu(att_mtu, connections, 1) - 3
      ]_vars


C31_AttPayloadBounded ==
    [][\A body \in AttBodies :
            RunReadAtt(1, body) =>
                /\ ~panicked'
                /\ IF PayloadLen(body) > L2CAP_MTU
                   THEN /\ run_pc' = "select"
                        /\ att_inbound' = att_inbound
                        /\ att_pending' = att_pending
                   ELSE LET pdu == IF run_pc' = "att_send"
                                   THEN att_pending'
                                   ELSE att_inbound'[Len(att_inbound')]
                        IN (run_pc' = "att_send" \/ Len(att_inbound') = Len(att_inbound) + 1)
                               => pdu.len = PayloadLen(body)
      ]_vars

====
